---- MODULE Spec2Model ----
(***************************************************************************)
(* Model of rotating-file-rs (src/src/lib.rs): RotatingFile, an AsyncWrite *)
(* sink that rotates, archives and gzips its file once a line or byte      *)
(* threshold is reached.                                                   *)
(*                                                                         *)
(* The file system is a function from file names to contents. A file name  *)
(* is a sequence of one-character strings, so that std::path's extension   *)
(* handling can be modelled by what it does. The tokio file handle is      *)
(* taken as a capability: a poll_write on it either is Pending, fails, or  *)
(* appends the first n bytes of the buffer to the file it was opened on.   *)
(* The rotation future (rotate_fut) is an asynchronous task: every .await  *)
(* of it is one step of the task, and poll_write / poll_flush /            *)
(* poll_shutdown observe the task when they poll it.                       *)
(***************************************************************************)
EXTENDS Integers, Sequences, FiniteSets, TLC

\* ------------------------------------------------------------- bounds
MaxBuf == 2
MaxPre == 1
MaxThreshold == 2
MaxAccepted == 3
MaxRot == 2

\* ---------------------------------------------------- program constants
\* b'\n' (countlines) and b'1' (the byte the tests write).
NL == 10
OtherByte == 49
\* [0u8; 1024] of the recovery scan, [0_u8; 4096] of compress.
ScanBuf == 1024
CompressBuf == 4096

Byte == {NL, OtherByte}
SeqsUpTo(n) == UNION {[1..k -> Byte] : k \in 0..n}
Min(a, b) == IF a < b THEN a ELSE b

\* ------------------------------------------------------------ countlines
RECURSIVE countlines(_)
countlines(buf) ==
    IF buf = <<>> THEN 0
    ELSE (IF Head(buf) = NL THEN 1 ELSE 0) + countlines(Tail(buf))

\* ------------------------------------------------- std::path on file names
Dot == "."

LastDot(name) ==
    IF \E i \in 1..Len(name) : name[i] = Dot
    THEN CHOOSE i \in 1..Len(name) :
            name[i] = Dot /\ \A j \in (i+1)..Len(name) : name[j] # Dot
    ELSE 0

\* Path::extension() is Some: there is a dot, not leading, and the name is not "..".
HasExtension(name) == LastDot(name) > 1 /\ name # <<Dot, Dot>>

extension(name) == SubSeq(name, LastDot(name) + 1, Len(name))

file_stem(name) ==
    IF HasExtension(name) THEN SubSeq(name, 1, LastDot(name) - 1) ELSE name

\* PathBuf::set_extension: cut back to the stem, then add "." and ext unless ext is empty.
set_extension(name, ext) ==
    IF ext = <<>> THEN file_stem(name) ELSE file_stem(name) \o <<Dot>> \o ext

\* ------------------------------------ Local::now().format("-%Y-%m-%d_%H-%M-%S")
Digit(d) ==
    CASE d = 0 -> "0" [] d = 1 -> "1" [] d = 2 -> "2" [] d = 3 -> "3"
      [] d = 4 -> "4" [] d = 5 -> "5" [] d = 6 -> "6" [] d = 7 -> "7"
      [] d = 8 -> "8" [] d = 9 -> "9"

Pad2(n) == <<Digit((n \div 10) % 10), Digit(n % 10)>>

\* t counts the seconds since 2020-01-01 00:00:00 local time (within January).
FormatNow(t) ==
    <<"-", "2", "0", "2", "0", "-", "0", "1", "-">> \o Pad2(1 + (t \div 86400))
        \o <<"_">> \o Pad2((t \div 3600) % 24)
        \o <<"-">> \o Pad2((t \div 60) % 60)
        \o <<"-">> \o Pad2(t % 60)

\* The clock values of the model: 00:00:59 and the second that follows it.
Clock == 59..60

\* ------------------------------------------------------- get_rotate_dest
\* Both unwraps: extension() of the path, file_name() of the path without it.
RotateDestPanics(p) == ~HasExtension(p) \/ set_extension(p, <<>>) = <<>>

get_rotate_dest(p, t) ==
    LET ext      == extension(p)
        noext    == set_extension(p, <<>>)
        filename == noext \o FormatNow(t)
    IN  set_extension(filename, ext)

\* compress, lines 107-110: the output name; extension().unwrap() may panic.
CompressPanics(target) == ~HasExtension(target)

GzSuffix == <<".", "g", "z">>

outputfile(target) == set_extension(target, extension(target) \o GzSuffix)

\* ---------------------------------------------------------- file system
Raw(d) == [kind |-> "raw", data |-> d, fin |-> TRUE]
DirEntry == [kind |-> "dir", data |-> <<>>, fin |-> TRUE]
GzFile(d, f) == [kind |-> "gz", data |-> d, fin |-> f]

Exists(fsys, p) == p \in DOMAIN fsys
IsDir(fsys, p) == Exists(fsys, p) /\ fsys[p].kind = "dir"

Put(fsys, p, c) == [q \in (DOMAIN fsys) \cup {p} |-> IF q = p THEN c ELSE fsys[q]]
Remove(fsys, p) == [q \in (DOMAIN fsys) \ {p} |-> fsys[q]]

RenameKeepsSource(fsys, from, to) == Put(fsys, to, fsys[from])

\* tokio::fs::rename: the destination is replaced.
Rename(fsys, from, to) == Remove(Put(fsys, to, fsys[from]), from)

\* std::fs::File::create: creates or truncates; here always as the gz stream's sink.
Create(fsys, p) == Put(fsys, p, GzFile(<<>>, FALSE))

\* A write through an append handle opened on p.
AppendTo(fsys, p, bytes) ==
    IF Exists(fsys, p) THEN Put(fsys, p, Raw(fsys[p].data \o bytes)) ELSE fsys

\* What a gzip reader recovers: the input of a finished stream.
Decompress(c) == IF c.kind = "gz" /\ c.fin THEN c.data ELSE <<>>

\* OpenOptions::new().write(true).create(true).append(true).open(p).await?
OpenAppendBroken(fsys, p, ioerr) ==
    [ok |-> TRUE, fs |-> IF Exists(fsys, p) THEN fsys ELSE Put(fsys, p, Raw(<<>>))]

OpenAppend(fsys, p, ioerr) ==
    IF ioerr \/ IsDir(fsys, p)
    THEN [ok |-> FALSE, fs |-> fsys]
    ELSE [ok |-> TRUE, fs |-> IF Exists(fsys, p) THEN fsys ELSE Put(fsys, p, Raw(<<>>))]

\* ------------------------------------------------------------- the writer
Modes == [kind : {"Lines", "Bytes"}, n : 0..MaxThreshold]

Paths == { <<"a", ".", "l", "o", "g">>,
           <<"a", ".", "b", ".", "l", "o", "g">>,
           <<"a", "l", "o", "g">> }

FileReady(l, b) == [tag |-> "FileReady", lines |-> l, bytes |-> b]
Rotating == [tag |-> "Rotating", lines |-> 0, bytes |-> 0]
NoState == [tag |-> "None", lines |-> 0, bytes |-> 0]

None == [some |-> FALSE, gen |-> 0]
SomeTaken(g) == [some |-> FALSE, gen |-> g]
Some(g) == [some |-> TRUE, gen |-> g]

NoFut == [pc |-> "none", target |-> <<>>, off |-> 0]
\* Self::rotate_fut(..).boxed(): a future that has not run yet
NewFut == [pc |-> "sync", target |-> <<>>, off |-> 0]
\* rots: for a poll_write that returned Pending, how many rotations the polls of
\* that write have started so far
Ret(op, kind, r) ==
    [op |-> op, kind |-> kind, rots |-> IF kind = "Pending" THEN r ELSE 0]

VARIABLES
    path,       \* argument of new / RotatingFile.path
    rotation,   \* argument of new / RotatingFile.rotation
    made,       \* "pending" before new returns, then "ok" or "err"
    state,      \* RotatingFile.state
    file,       \* RotatingFile.file
    fut,        \* the rotation future held by StateFuture::Rotating
    fs,         \* the file system
    now,        \* the last reading of Local::now(), in seconds
    ret,        \* the last public call, what it returned, and for a write how
                \* many rotations its polls have started so far
    called,     \* the method of the file handle that the last public call
                \* invoked: "write", "flush", "shutdown", or "none"
    pre,        \* history: content at the path before new
    accepted,   \* history: every byte poll_write reported as written, in order
    rotations,  \* history: how many times rotate() ran
    rotlog,     \* history: the compressed archive of each succeeded rotation
    crossings,  \* history: how often the active counter got to the threshold, by
                \* a write or already by the recovery scan
    crossAt,    \* history: Len(pre \o accepted) when the counter last got there
    epochAt,    \* history: Len(pre \o accepted) when rotate() last ran
    scanned     \* history: the recovery scan opened and read the file to its end

vars == <<path, rotation, made, state, file, fut, fs, now, ret, called,
          pre, accepted, rotations, rotlog, crossings, crossAt, epochAt, scanned>>

hist == <<pre, accepted, rotations, rotlog, crossings, crossAt, epochAt, scanned>>

\* ------------------------------------------------------------------ Init
EmptyFs == [q \in {} |-> DirEntry]

Init ==
    /\ path \in Paths
    /\ rotation \in Modes
    /\ \E d \in SeqsUpTo(MaxPre), k \in {"absent", "dir", "file"} :
          /\ k # "file" => d = <<>>
          /\ fs = CASE k = "absent" -> EmptyFs
                    [] k = "dir" -> Put(EmptyFs, path, DirEntry)
                    [] k = "file" -> Put(EmptyFs, path, Raw(d))
          /\ pre = d
    /\ made = "pending"
    /\ state = NoState
    /\ file = None
    /\ fut = NoFut
    /\ now = 59
    /\ ret = Ret("none", "Ok", 0)
    /\ called = "none"
    /\ accepted = <<>>
    /\ rotations = 0
    /\ rotlog = <<>>
    /\ crossings = 0
    /\ crossAt = 0
    /\ epochAt = 0
    /\ scanned = FALSE

\* --------------------------------------------------------- poll_write's test
ShouldRotateSwapped(mode, lines, bytes) ==
    IF mode.kind = "Lines" THEN bytes >= mode.n ELSE lines >= mode.n

ShouldRotateStrict(mode, lines, bytes) ==
    IF mode.kind = "Lines" THEN lines > mode.n ELSE bytes > mode.n

\* lines 149-152
ShouldRotate(mode, lines, bytes) ==
    IF mode.kind = "Lines" THEN lines >= mode.n ELSE bytes >= mode.n

\* The counter selected by the mode has reached the threshold (RotationMode).
AtThreshold(mode, st) ==
    \/ mode.kind = "Lines" /\ st.lines >= mode.n
    \/ mode.kind = "Bytes" /\ st.bytes >= mode.n

\* lines 158-161: only Poll::Ready(Ok(n)) credits the counters
CreditAlways(st, buf, w) ==
    FileReady(st.lines + countlines(buf), st.bytes + Len(buf))

CreditWholeBuffer(st, buf, w) ==
    IF w.kind = "Ok"
    THEN FileReady(st.lines + countlines(buf), st.bytes + w.n)
    ELSE st

Credit(st, buf, w) ==
    IF w.kind = "Ok"
    THEN FileReady(st.lines + countlines(SubSeq(buf, 1, w.n)), st.bytes + w.n)
    ELSE st

\* A poll that would report a rotation still in flight as done.
PollFutEager(f) == IF f.pc = "err" THEN "Err" ELSE "Ok"

\* Pin::as_mut(fut).poll(cx): what the caller sees of the rotation task. A future
\* that already returned Ready, or that panicked, panics when polled again.
PollFut(f) ==
    CASE f.pc = "ok" -> "Ok"
      [] f.pc = "err" -> "Err"
      [] f.pc \in {"complete", "panic"} -> "Panic"
      [] OTHER -> "Pending"

\* ------------------------------------------------------ RotatingFile::new
\* lines 44-55, the recovery scan: reads of up to ScanBuf bytes are counted
\* until one returns 0 or fails; scanok says whether File::open and the reads
\* succeeded (`if let Ok`, `while let Ok`: a failure only ends the scan).
RECURSIVE ScanFrom(_, _, _, _)
ScanFrom(content, at, reads, st) ==
    LET n == Min(ScanBuf, Len(content) - at)
    IN  IF n = 0 \/ reads = 0
        THEN st
        ELSE ScanFrom(content, at + n, reads - 1,
                      FileReady(st.lines + countlines(SubSeq(content, at + 1, at + n)),
                                st.bytes + n))

ScanCountsNone(fsys, p, scanok) == FileReady(0, 0)

ScanCounts(fsys, p, scanok) ==
    IF Exists(fsys, p) /\ ~IsDir(fsys, p) /\ scanok
    THEN ScanFrom(fsys[p].data, 0, Len(fsys[p].data), FileReady(0, 0))
    ELSE FileReady(0, 0)

New(scanok, ioerr) ==
    /\ made = "pending"
    \* File::open fails on a missing file; a read of a directory fails
    /\ scanok => Exists(fs, path) /\ ~IsDir(fs, path)
    /\ scanned' = scanok
    /\ LET opened == OpenAppend(fs, path, ioerr)
       IN  IF opened.ok
           THEN /\ made' = "ok"
                /\ fs' = opened.fs
                /\ state' = ScanCounts(fs, path, scanok)
                /\ file' = Some(1)
                /\ ret' = Ret("new", "Ok", 0)
                /\ crossAt' = Len(pre)
                /\ crossings' = IF AtThreshold(rotation, state') THEN 1 ELSE 0
           ELSE /\ made' = "err"
                /\ ret' = Ret("new", "Err", 0)
                /\ UNCHANGED <<fs, state, file, crossAt, crossings>>
    /\ UNCHANGED <<path, rotation, fut, now, called, pre, accepted, rotations,
                   rotlog, epochAt>>

\* ------------------------------------------------------------ poll_write
Bufs == SeqsUpTo(MaxBuf) \ {<<>>}

\* What the file handle's own poll_write may answer: Pending, Err, or Ok(n)
\* for the first n bytes of a buffer of at least n bytes. The buffer of a
\* poll that ends Pending or Err leaves no trace.
WriteOutcomes ==
    {[kind |-> "Pending", n |-> 0], [kind |-> "Err", n |-> 0]}
        \cup {[kind |-> "Ok", n |-> n] : n \in 1..MaxBuf}

BufsFor(w) ==
    IF w.kind = "Ok" THEN {b \in Bufs : Len(b) >= w.n} ELSE {<<NL>>}

Callable == made = "ok" /\ ret.kind # "Panic"

\* Rotations started by the polls of the write the caller is awaiting: a poll
\* that follows a Pending poll_write continues that write.
Rots == IF ret.op = "write" /\ ret.kind = "Pending" THEN ret.rots ELSE 0

PollWrite ==
    /\ Callable
    /\ LET polled == IF state.tag = "Rotating" THEN PollFut(fut) ELSE "Ready"
           \* lines 166-169: the rotation resolved, adopt its handle and loop
           st1   == IF state.tag = "Rotating" THEN FileReady(0, 0) ELSE state
           file1 == IF state.tag = "Rotating" THEN Some(Len(rotlog) + 1) ELSE file
       IN  CASE polled = "Pending" ->
                  /\ ret' = Ret("write", "Pending", Rots)
                  /\ called' = "none"
                  /\ UNCHANGED <<state, file, fut, fs, accepted, rotations,
                                 crossings, crossAt, epochAt>>
             [] polled = "Err" ->
                  /\ ret' = Ret("write", "Err", Rots)
                  /\ called' = "none"
                  /\ fut' = [fut EXCEPT !.pc = "complete"]
                  /\ UNCHANGED <<state, file, fs, accepted, rotations,
                                 crossings, crossAt, epochAt>>
             [] polled = "Panic" \/ (polled \in {"Ok", "Ready"} /\ ~file1.some) ->
                  /\ ret' = Ret("write", "Panic", Rots)
                  /\ called' = "none"
                  /\ UNCHANGED <<state, file, fut, fs, accepted, rotations,
                                 crossings, crossAt, epochAt>>
             [] OTHER ->
                  IF ShouldRotate(rotation, st1.lines, st1.bytes)
                  THEN \* rotate(), then the fresh future is polled and suspends
                       /\ rotations < MaxRot
                       /\ state' = Rotating
                       /\ file' = None
                       /\ fut' = NewFut
                       /\ rotations' = rotations + 1
                       /\ ret' = Ret("write", "Pending", Rots + 1)
                       /\ called' = "none"
                       /\ epochAt' = Len(pre) + Len(accepted)
                       /\ UNCHANGED <<fs, accepted, crossings, crossAt>>
                  ELSE \* lines 157-162
                       \E w \in WriteOutcomes : \E buf \in BufsFor(w) :
                       /\ w.kind = "Ok" => Len(accepted) + w.n <= MaxAccepted
                       /\ state' = Credit(st1, buf, w)
                       /\ file' = file1
                       /\ fut' = NoFut
                       /\ ret' = Ret("write", w.kind, Rots)
                       /\ called' = "write"
                       /\ fs' = IF w.kind = "Ok"
                                THEN AppendTo(fs, path, SubSeq(buf, 1, w.n))
                                ELSE fs
                       /\ accepted' = IF w.kind = "Ok"
                                      THEN accepted \o SubSeq(buf, 1, w.n)
                                      ELSE accepted
                       /\ LET crossed == w.kind = "Ok" /\ ~AtThreshold(rotation, st1)
                                            /\ AtThreshold(rotation, state')
                          IN  /\ crossings' = crossings + (IF crossed THEN 1 ELSE 0)
                              /\ crossAt' = IF crossed
                                            THEN Len(pre) + Len(accepted')
                                            ELSE crossAt
                       /\ UNCHANGED <<rotations, epochAt>>
    /\ UNCHANGED <<path, rotation, made, now, pre, rotlog, scanned>>

\* ------------------------------------------- poll_flush / poll_shutdown
\* lines 181-190 and 197-208: the two functions differ only in the handle's
\* method they call in FileReady.
PollOther(op, w) ==
    /\ Callable
    /\ w \in {"Ok", "Err", "Pending"}
    /\ state.tag = "Rotating" => w = "Ok"
    /\ LET polled == IF state.tag = "Rotating" THEN PollFut(fut) ELSE "Ready"
           result == CASE polled = "Ready" -> IF file.some THEN w ELSE "Panic"
                       [] OTHER -> polled
       IN  /\ ret' = Ret(op, result, 0)
           \* lines 181, 198: only the FileReady arm calls the handle's method
           /\ called' = IF polled = "Ready" /\ file.some THEN op ELSE "none"
           /\ CASE polled = "Ok" ->
                     /\ file' = Some(Len(rotlog) + 1)
                     /\ state' = FileReady(0, 0)
                     /\ fut' = NoFut
                [] polled = "Err" ->
                     /\ fut' = [fut EXCEPT !.pc = "complete"]
                     /\ UNCHANGED <<state, file>>
                [] OTHER -> UNCHANGED <<state, file, fut>>
    /\ UNCHANGED <<path, rotation, made, fs, now, hist>>

\* A poll_shutdown that would test the threshold as poll_write does.
PollShutdownRotates(w) ==
    IF state.tag = "FileReady" /\ ShouldRotate(rotation, state.lines, state.bytes)
    THEN /\ Callable /\ w = "Ok" /\ rotations < MaxRot
         /\ state' = Rotating
         /\ file' = None
         /\ fut' = NewFut
         /\ rotations' = rotations + 1
         /\ ret' = Ret("shutdown", "Pending", 0)
         /\ called' = "none"
         /\ UNCHANGED <<path, rotation, made, fs, now, pre, accepted, rotlog,
                        crossings, crossAt, epochAt, scanned>>
    ELSE PollOther("shutdown", w)

\* A poll_flush that would replace a rotation in flight by a new one.
PollFlushRestarts(w) ==
    IF state.tag = "Rotating"
    THEN /\ Callable /\ w = "Ok" /\ rotations < MaxRot
         /\ fut' = NewFut
         /\ rotations' = rotations + 1
         /\ ret' = Ret("flush", "Pending", 0)
         /\ called' = "none"
         /\ UNCHANGED <<path, rotation, made, state, file, fs, now, pre, accepted,
                        rotlog, crossings, crossAt, epochAt, scanned>>
    ELSE PollOther("flush", w)

PollFlush(w) == PollOther("flush", w)

PollShutdown(w) == PollOther("shutdown", w)

\* ------------------------------------------------- rotate_fut and compress
Running == made = "ok" /\ state.tag = "Rotating"

TaskFrame == <<path, rotation, made, state, file, ret, called, pre, accepted,
               rotations, crossings, crossAt, epochAt, scanned>>

\* A rotation that would go from the sync straight to the reopen.
RotateSyncThenReopen ==
    /\ now' = now
    /\ Running /\ fut.pc = "sync"
    /\ fut' = [fut EXCEPT !.pc = "reopen"]
    /\ UNCHANGED <<fs, rotlog>>
    /\ UNCHANGED TaskFrame

\* line 91: file.sync_all().await?
RotateSync ==
    /\ now' = now
    /\ Running /\ fut.pc = "sync"
    /\ fut' = [fut EXCEPT !.pc = "rename"]
    /\ UNCHANGED <<fs, rotlog>>
    /\ UNCHANGED TaskFrame

\* lines 93-94: get_rotate_dest, then rename
RotateRename(t) ==
    /\ Running /\ fut.pc = "rename"
    /\ t >= now
    /\ now' = t
    /\ IF RotateDestPanics(path)
       THEN /\ fut' = [fut EXCEPT !.pc = "panic"]
            /\ fs' = fs
       ELSE LET target_path == get_rotate_dest(path, t)
            IN  /\ fs' = Rename(fs, path, target_path)
                /\ fut' = [fut EXCEPT !.pc = "c_open", !.target = target_path]
    /\ UNCHANGED rotlog
    /\ UNCHANGED TaskFrame

\* lines 107-116: the output name, File::open of the input, and
\* GzEncoder::new(std::fs::File::create(outputfile)?, ..)
CompressOpen ==
    /\ now' = now
    /\ Running /\ fut.pc = "c_open"
    /\ IF CompressPanics(fut.target)
       THEN /\ fut' = [fut EXCEPT !.pc = "panic"]
            /\ fs' = fs
       ELSE /\ fut' = [fut EXCEPT !.pc = "c_loop", !.off = 0]
            /\ fs' = Create(fs, outputfile(fut.target))
    /\ UNCHANGED rotlog
    /\ UNCHANGED TaskFrame

\* lines 117-127: one turn of the loop, a read that fills the buffer or reaches
\* the end of the file, then gz.write_all, or gz.finish at end of input
CompressLoop ==
    /\ now' = now
    /\ Running /\ fut.pc = "c_loop"
    /\ LET input == fs[fut.target].data
           out   == outputfile(fut.target)
           n     == Min(CompressBuf, Len(input) - fut.off)
       IN  /\ IF n = 0
              THEN /\ fs' = Put(fs, out, GzFile(fs[out].data, TRUE))
                   /\ fut' = [fut EXCEPT !.pc = "c_remove"]
              ELSE /\ fs' = Put(fs, out,
                                GzFile(fs[out].data
                                          \o SubSeq(input, fut.off + 1, fut.off + n),
                                       FALSE))
                   /\ fut' = [fut EXCEPT !.off = fut.off + n]
    /\ UNCHANGED rotlog
    /\ UNCHANGED TaskFrame

\* line 122: tokio::fs::remove_file(&path).await?
CompressRemove ==
    /\ now' = now
    /\ Running /\ fut.pc = "c_remove"
    /\ fs' = Remove(fs, fut.target)
    /\ fut' = [fut EXCEPT !.pc = "reopen"]
    /\ UNCHANGED rotlog
    /\ UNCHANGED TaskFrame

\* lines 96-103: the fresh file at the logical path
RotateReopen ==
    /\ now' = now
    /\ Running /\ fut.pc = "reopen"
    /\ LET opened == OpenAppend(fs, path, FALSE)
       IN  /\ fs' = opened.fs
           /\ fut' = [fut EXCEPT !.pc = IF opened.ok THEN "ok" ELSE "err"]
           /\ rotlog' = IF opened.ok
                        THEN rotlog \o <<outputfile(fut.target)>>
                        ELSE rotlog
    /\ UNCHANGED TaskFrame

Steps == {"sync", "rename", "c_open", "c_loop", "c_remove", "reopen"}

\* any `?` of rotate_fut / compress: the step at fut.pc fails, the task ends in Err.
\* A failure inside the loop of compress (lines 119, 125) drops the GzEncoder,
\* whose destructor tries to finish the stream and ignores the outcome.
RotateFail ==
    /\ now' = now
    /\ Running /\ fut.pc \in Steps
    /\ fut' = [fut EXCEPT !.pc = "err"]
    /\ \E finished \in BOOLEAN :
          /\ finished => fut.pc = "c_loop"
          /\ fs' = IF finished
                   THEN Put(fs, outputfile(fut.target),
                            GzFile(fs[outputfile(fut.target)].data, TRUE))
                   ELSE fs
    /\ UNCHANGED rotlog
    /\ UNCHANGED TaskFrame

Next ==
    \/ \E scanok \in BOOLEAN, ioerr \in BOOLEAN : New(scanok, ioerr)
    \/ PollWrite
    \/ \E w \in {"Ok", "Err", "Pending"} : PollFlush(w)
    \/ \E w \in {"Ok", "Err", "Pending"} : PollShutdown(w)
    \/ RotateSync
    \/ \E t \in Clock : RotateRename(t)
    \/ CompressOpen
    \/ CompressLoop
    \/ CompressRemove
    \/ RotateReopen
    \/ RotateFail

Spec == Init /\ [][Next]_vars

\* ======================================================================
\* Claims
\* ======================================================================

\* The decompressed archives of the succeeded rotations, in rotation order.
RECURSIVE ConcatArchives(_)
ConcatArchives(log) ==
    IF log = <<>> THEN <<>>
    ELSE (IF Exists(fs, Head(log)) THEN Decompress(fs[Head(log)]) ELSE <<>>)
            \o ConcatArchives(Tail(log))

Ready == made = "ok" /\ state.tag = "FileReady"

\* No two succeeded rotations derived the same archive name.
DistinctArchives ==
    \A i, j \in 1..Len(rotlog) : i # j => rotlog[i] # rotlog[j]

\* C1: whenever the writer is Ready (every rotation so far succeeded), the
\* decompressed archives in rotation order followed by the active file are
\* exactly the pre-existing content followed by every accepted byte, in order;
\* for every path and also when two rotations derive the same archive name.
\* (Stated for thresholds of at least 1, so that a violation does not rest on
\* the endless rotations of a threshold of 0.)
C1_NoDataLoss ==
    (Ready /\ rotation.n >= 1)
        => ConcatArchives(rotlog) \o fs[path].data = pre \o accepted

\* C1, restricted to runs in which the archive names are pairwise distinct.
C1_NoDataLossDistinctNames ==
    (Ready /\ DistinctArchives)
        => ConcatArchives(rotlog) \o fs[path].data = pre \o accepted

\* C2: the polls of one write start at most one rotation before the write is
\* serviced, for every RotationMode value.
C2_AtMostOneRotationPerWrite ==
    (ret.op = "write" /\ ret.kind = "Pending") => ret.rots <= 1

\* The bytes a step delivered, read off the history of accepted bytes.
Delivered == SubSeq(accepted', Len(accepted) + 1, Len(accepted'))

\* The count of the mode's kind in a byte sequence.
CountOf(mode, bytes) == IF mode.kind = "Lines" THEN countlines(bytes) ELSE Len(bytes)

\* The counter the mode selects.
ActiveCounter(mode, st) == IF mode.kind = "Lines" THEN st.lines ELSE st.bytes

\* C3: a step that delivers bytes delivers them while the selected counter is
\* below the threshold; a poll_write that finds the writer Ready at or over the
\* threshold takes the handle and starts a rotation and delivers nothing; and
\* bytes delivered by a poll that did not start Ready under the threshold are
\* the only content of the freshly opened file.
C3_StepOk ==
    /\ accepted' # accepted =>
          /\ state'.tag = "FileReady"
          /\ ActiveCounter(rotation, state') - CountOf(rotation, Delivered) < rotation.n
          /\ ~(Ready /\ ~AtThreshold(rotation, state)) =>
                /\ fs'[path] = Raw(Delivered)
                /\ file' = Some(Len(rotlog) + 1)
                /\ Len(rotlog) >= 1
    /\ (Ready /\ AtThreshold(rotation, state) /\ ret'.op = "write" /\ ret' # ret) =>
          /\ state'.tag = "Rotating"
          /\ file' = None
          /\ rotations' = rotations + 1
          /\ fs' = fs
          /\ accepted' = accepted

\* C3: every step satisfies C3_StepOk: no write is delivered while the selected
\* counter is at or over the threshold; such a poll_write rotates first, and the
\* pending bytes become the first content of the fresh file.
C3_NoWriteAtThreshold == [][C3_StepOk]_vars

\* C3 witness: a write reached the threshold, a rotation succeeded, and a later
\* write was delivered to the fresh file.
C3_Witness ==
    /\ Ready /\ rotation.n >= 1 /\ crossings >= 1 /\ Len(rotlog) >= 1
    /\ ret = Ret("write", "Ok", 0)
    /\ file = Some(2)
    /\ fs[path].data # <<>>

\* C4: on an empty or absent file, as long as the accepted bytes stay below the
\* threshold in the active mode, no rotation was started, nothing but the file
\* at the logical path exists, and it holds the accepted bytes in order.
C4_NoRotationBelowThreshold ==
    (made = "ok" /\ pre = <<>> /\ CountOf(rotation, accepted) < rotation.n) =>
        /\ state.tag = "FileReady"
        /\ rotations = 0
        /\ DOMAIN fs = {path}
        /\ fs[path] = Raw(accepted)

\* C4 witness: two writes and a shutdown, still under the threshold.
C4_Witness ==
    /\ made = "ok" /\ pre = <<>> /\ CountOf(rotation, accepted) < rotation.n
    /\ Len(accepted) >= 2
    /\ ret = Ret("shutdown", "Ok", 0)

\* C5, one rotation per crossing: (for thresholds of at least 1; with a
\* threshold of 0 no write is ever delivered, so none crosses it) every time the
\* active counter got to the threshold, by a write or by the recovery scan,
\* exactly one rotation was started, except for the latest time while the
\* rotation it calls for is still due at the next write.
C5_OnePerCrossing ==
    (made = "ok" /\ rotation.n >= 1) =>
        rotations + (IF Ready /\ AtThreshold(rotation, state) THEN 1 ELSE 0)
            = crossings

\* C5, the file after a rotation: once a rotation has succeeded, the file at
\* the logical path holds exactly the bytes accepted since the rotation began,
\* and the rotation began right after the write that got to the threshold.
C5_OnlyLaterBytes ==
    (Ready /\ Len(rotlog) >= 1) =>
        /\ fs[path] = Raw(SubSeq(pre \o accepted, epochAt + 1, Len(pre) + Len(accepted)))
        /\ (rotation.n >= 1 /\ ~AtThreshold(rotation, state)) => crossAt = epochAt

\* C5, the reset: the step in which a rotation's handle is adopted leaves the
\* counters at (0, 0) plus what that same poll_write delivered.
C5_ResetStep ==
    (state.tag = "Rotating" /\ state'.tag = "FileReady") =>
        state' = FileReady(countlines(Delivered), Len(Delivered))

\* C5, the tests' scenario: on a fresh file with a threshold of at least 1
\* (Lines(1), Bytes(2)), after writes that got to the threshold twice and one
\* rotation, there is exactly one archive, compressed, holding what was written
\* up to the first of them, and the active file holds only what came after.
C5_Scenario ==
    (Ready /\ pre = <<>> /\ rotation.n >= 1 /\ rotations = 1 /\ crossings = 2) =>
        /\ Len(rotlog) = 1
        /\ DOMAIN fs = {path, rotlog[1]}
        /\ fs[rotlog[1]] = GzFile(SubSeq(accepted, 1, epochAt), TRUE)
        /\ fs[path] = Raw(SubSeq(accepted, epochAt + 1, Len(accepted)))
        /\ AtThreshold(rotation, FileReady(countlines(fs[path].data), Len(fs[path].data)))
        /\ AtThreshold(rotation, FileReady(countlines(Decompress(fs[rotlog[1]])),
                                           Len(Decompress(fs[rotlog[1]]))))

\* C5: each threshold crossing costs exactly one rotation, the rotation resets
\* both counters, and the file at the original path holds only the bytes
\* written after the most recent rotation.
C5_RotationPerCrossing ==
    /\ [](C5_OnePerCrossing /\ C5_OnlyLaterBytes /\ C5_Scenario)
    /\ [][C5_ResetStep]_vars

\* C5 witness: Lines(1), two writes of one line each, one rotation, then a flush.
C5_Witness ==
    /\ Ready /\ pre = <<>> /\ rotation = [kind |-> "Lines", n |-> 1]
    /\ rotations = 1 /\ crossings = 2
    /\ accepted = <<NL, NL>>
    /\ ret = Ret("flush", "Ok", 0)

C6_StepOk ==
    /\ (made = "pending" /\ made' = "ok" /\ scanned') =>
          state' = FileReady(countlines(pre), Len(pre))
    /\ (/\ Ready /\ rotations = 0 /\ ~AtThreshold(rotation, state)
        /\ accepted' # accepted /\ AtThreshold(rotation, state')) =>
          /\ state'.tag = "FileReady"
          /\ rotations' = 0
          /\ fs'[path] = Raw(pre \o accepted')
          /\ ActiveCounter(rotation, state')
                = ActiveCounter(rotation, state) + CountOf(rotation, Delivered)
    /\ (/\ Ready /\ rotations = 0 /\ accepted # <<>> /\ AtThreshold(rotation, state)
        /\ ret'.op = "write" /\ ret' # ret) =>
          /\ state'.tag = "Rotating"
          /\ rotations' = 1
          /\ accepted' = accepted
          /\ fs' = fs

C7_RotatesOnFirstWrite ==
    (made = "ok" /\ CountOf(rotation, pre) >= rotation.n) =>
        (accepted = <<>> \/ rotations >= 1)

\* C8: constructing against a directory, or when the open for appending fails,
\* returns Err and creates no writer, and nothing panics.
C8_DirectoryFailsNew ==
    /\ IsDir(fs, path) => made # "ok"
    /\ made # "ok" => (state = NoState /\ file = None /\ fut = NoFut
                       /\ ret.kind # "Panic")
    /\ made = "err" <=> ret = Ret("new", "Err", 0)

\* C8 witness: new has returned Err for a directory.
C8_Witness == IsDir(fs, path) /\ made = "err" /\ ret = Ret("new", "Err", 0)

\* C9: once a failed rotation's error has been returned, every further call
\* returns an error; none panics.
C9_FailedRotationThenErrors ==
    (made = "ok" /\ fut.pc = "complete") => ret.kind = "Err"

\* C10: a poll_write that finds the writer Ready under the threshold and whose
\* underlying write fails returns the error and changes neither the counters,
\* the state, the handle nor any file.
C10_StepOk ==
    (/\ Ready /\ ~AtThreshold(rotation, state)
     /\ ret'.op = "write" /\ ret'.kind = "Err") =>
        /\ state' = state
        /\ file' = file
        /\ fs' = fs
        /\ accepted' = accepted

\* C10: every step satisfies C10_StepOk: a failed write in Ready returns the
\* error and leaves counters, state, handle and files unchanged.
C10_WriteErrorKeepsState == [][C10_StepOk]_vars

\* C10 witness: a failed write on a Ready writer that had accepted bytes before.
C10_Witness ==
    /\ Ready /\ ~AtThreshold(rotation, state) /\ accepted # <<>>
    /\ ret = Ret("write", "Err", 0)

\* The archive name the rotation of path p at second t is meant to derive: the
\* stem, the timestamp, then the original extension.
StemTimestampExt(p, t) == file_stem(p) \o FormatNow(t) \o <<Dot>> \o extension(p)

\* C11: for every path construction accepted, no rotation panics deriving the
\* names; the archive the rotation renamed the file to is stem, timestamp and
\* original extension; and once the compressor has created its output, that
\* output is the same name followed by ".gz". Also for stems that contain dots.
C11_ArchiveName ==
    made = "ok" =>
        /\ fut.pc # "panic"
        /\ fut.target # <<>> => fut.target = StemTimestampExt(path, now)
        /\ fut.pc \in {"c_loop", "c_remove", "reopen", "ok"} =>
              Exists(fs, StemTimestampExt(path, now) \o GzSuffix)
        /\ \A i \in 1..Len(rotlog) :
              \E t \in Clock : rotlog[i] = StemTimestampExt(path, t) \o GzSuffix

\* C11 for file names with one dot only: the names are derived as described.
C11_ArchiveNameSingleDot ==
    (made = "ok" /\ path = <<"a", ".", "l", "o", "g">>) =>
        /\ fut.pc # "panic"
        /\ fut.target # <<>> => fut.target = StemTimestampExt(path, now)
        /\ fut.pc \in {"c_loop", "c_remove", "reopen", "ok"} =>
              Exists(fs, StemTimestampExt(path, now) \o GzSuffix)

\* C12: a poll_flush or poll_shutdown that finds the writer Ready, at or over
\* the threshold included, calls the handle's method and leaves the state with
\* its counters, the handle, every file and the rotation count as they were:
\* no rotation future is created, nothing is renamed, archived or reopened.
C12_StepOk ==
    (Ready /\ ret'.op \in {"flush", "shutdown"}) =>
        /\ state' = state
        /\ file' = file
        /\ fut' = fut
        /\ fs' = fs
        /\ rotations' = rotations
        /\ rotlog' = rotlog
        /\ called' = ret'.op

\* C12: every step satisfies C12_StepOk: flush and shutdown never start a
\* rotation, whatever the counters are.
C12_FlushShutdownNeverRotate == [][C12_StepOk]_vars

\* C12 witness: a shutdown has returned on a Ready writer whose counter had
\* been brought to the threshold by a write, and no rotation has ever started.
C12_Witness ==
    /\ Ready /\ AtThreshold(rotation, state) /\ accepted # <<>>
    /\ rotation.n >= 1 /\ rotations = 0
    /\ ret = Ret("shutdown", "Ok", 0) /\ called = "shutdown"

\* C13, the recovery scan: new returned Ok on a file that had content only if
\* the scan opened the file and read it to its end.
C13_ScanErrorReturned == (made = "ok" /\ pre # <<>>) => scanned

\* C13, the rotation: the public call that polls a rotation task ended in
\* error returns Err.
C13_RotationErrorReturned ==
    (made = "ok" /\ state.tag = "Rotating" /\ fut.pc = "err") =>
        (ret'.kind = "Err" /\ fut'.pc = "complete")

\* C13: no error is swallowed: a failure of the recovery scan's open or read
\* makes new return Err, and a failed rotation step is returned as Err by the
\* call that polls the rotation.
C13_NoErrorSwallowed ==
    [](C13_ScanErrorReturned) /\ [][C13_RotationErrorReturned]_vars

\* C13 without the recovery scan: the errors of the rotation are returned.
C13_RotationErrorsOnly == [][C13_RotationErrorReturned]_vars

\* The compressed archive of the rotation in flight.
GzOfTarget == outputfile(fut.target)

\* C14, one step of a rotation: the step taken is the one the fixed order
\* sync, rename, compress (open, create, read and write, finish), delete,
\* reopen prescribes after the steps taken so far, with that step's effect on
\* the files and no other; a step that fails ends the rotation in error and
\* changes no file, except that a failure while compressing may leave the
\* compressor's output closed as it is; and once the rotation has ended in
\* error or died, no file changes any more.
C14_StepOk ==
    /\ (made = "ok" /\ state.tag = "Rotating" /\ fut.pc \in Steps /\ fut' # fut) =>
          \/ fut'.pc = "err" /\ fs' = fs
          \/ /\ fut.pc = "c_loop" /\ fut'.pc = "err"
             /\ fs' = Put(fs, GzOfTarget, GzFile(fs[GzOfTarget].data, TRUE))
          \/ fut.pc = "sync" /\ fut'.pc = "rename" /\ fs' = fs
          \/ /\ fut.pc = "rename" /\ fut'.pc = "c_open"
             /\ ~Exists(fs', path)
             /\ DOMAIN fs' = (DOMAIN fs \ {path}) \cup {fut'.target}
             /\ fs'[fut'.target] = fs[path]
          \/ /\ fut.pc = "rename" /\ fut'.pc = "panic" /\ fs' = fs
          \/ /\ fut.pc = "c_open" /\ fut'.pc = "c_loop"
             /\ fs' = Put(fs, GzOfTarget, GzFile(<<>>, FALSE))
          \/ /\ fut.pc = "c_loop" /\ fut'.pc = "c_loop"
             /\ DOMAIN fs' = DOMAIN fs
             /\ fs'[fut.target] = fs[fut.target]
             /\ ~fs'[GzOfTarget].fin
             /\ Len(fs'[GzOfTarget].data) > Len(fs[GzOfTarget].data)
          \/ /\ fut.pc = "c_loop" /\ fut'.pc = "c_remove"
             /\ fs'[fut.target] = fs[fut.target]
             /\ fs'[GzOfTarget] = GzFile(fs[fut.target].data, TRUE)
          \/ /\ fut.pc = "c_remove" /\ fut'.pc = "reopen"
             /\ fs[GzOfTarget].fin
             /\ fs' = Remove(fs, fut.target)
          \/ /\ fut.pc = "reopen" /\ fut'.pc = "ok"
             /\ ~Exists(fs, fut.target) /\ ~Exists(fs, path)
             /\ fs' = Put(fs, path, Raw(<<>>))
    /\ (made = "ok" /\ state.tag = "Rotating"
            /\ fut.pc \in {"err", "complete", "panic"}) => fs' = fs
    /\ (made = "ok" /\ state.tag = "Rotating") =>
          (fut'.target # fut.target => fut.pc \in {"rename", "ok"})

\* C14: every step satisfies C14_StepOk: a rotation performs sync, rename,
\* compress, delete and reopen in that order, one after the other, and a
\* failed step ends it in error with none of the later steps performed.
C14_FixedOrder == [][C14_StepOk]_vars

\* C14 witness: a rotation ran through all its steps: a non-empty archive is
\* finished, the uncompressed archive is deleted and the fresh file is open.
C14_Witness ==
    /\ made = "ok" /\ state.tag = "Rotating" /\ fut.pc = "ok"
    /\ Exists(fs, GzOfTarget) /\ Decompress(fs[GzOfTarget]) # <<>>
    /\ ~Exists(fs, fut.target)
    /\ fs[path] = Raw(<<>>)

\* The bytes of every epoch rotated so far: what the file held each time
\* rotate() ran, in order.
RotatedBytes == SubSeq(pre \o accepted, 1, epochAt)

\* Where the bytes of the rotation in flight (or failed) may be found: at the
\* logical path before the rename, then in the uncompressed archive or in the
\* finished compressed archive.
HoldersInFlight ==
    IF fut.target = <<>>
    THEN {fs[p].data : p \in {path} \cap DOMAIN fs}
    ELSE {fs[p].data : p \in {fut.target} \cap DOMAIN fs}
            \cup {Decompress(fs[p]) : p \in {GzOfTarget} \cap DOMAIN fs}

\* The rotation in flight has not been logged as succeeded yet.
InFlight == state.tag = "Rotating" /\ fut.pc # "ok"

\* C15, the state: the bytes of every rotated epoch are in the finished
\* compressed archives of the succeeded rotations, followed, for the rotation
\* in flight or failed, by the uncompressed archive or its finished
\* compressed archive. (Stated for thresholds of at least 1, so that a
\* violation does not rest on the endless rotations of a threshold of 0.)
C15_EpochsKept ==
    (made = "ok" /\ rotation.n >= 1) =>
        IF InFlight
        THEN \E held \in HoldersInFlight :
                ConcatArchives(rotlog) \o held = RotatedBytes
        ELSE ConcatArchives(rotlog) = RotatedBytes

\* C15, the step: the uncompressed archive is removed only when the
\* compressed archive is finished and holds the same bytes.
C15_DeleteStep ==
    (made = "ok" /\ state.tag = "Rotating" /\ fut.target # <<>>
        /\ Exists(fs, fut.target) /\ ~Exists(fs', fut.target)) =>
            /\ Exists(fs, GzOfTarget)
            /\ fs[GzOfTarget] = GzFile(fs[fut.target].data, TRUE)

\* C15: the uncompressed archive is deleted only after the compressor has
\* finished its output, and at every state the bytes of every rotated epoch
\* exist in an uncompressed archive or in a finished compressed archive.
C15_ArchiveKeptUntilCompressed ==
    [](C15_EpochsKept) /\ [][C15_DeleteStep]_vars

\* The archive names in use are pairwise distinct, that of the rotation in
\* flight included.
DistinctWithInFlight ==
    /\ DistinctArchives
    /\ (InFlight /\ fut.target # <<>>) =>
          \A i \in 1..Len(rotlog) : rotlog[i] # GzOfTarget

\* C15 for runs in which no two rotations derive the same archive name.
C15_KeptWithDistinctNames ==
    [](DistinctWithInFlight => C15_EpochsKept) /\ [][C15_DeleteStep]_vars

\* C16: between public operations, the file field holds a handle exactly when
\* the state is FileReady and none exactly when it is Rotating; and no call
\* panicked on the unwrap of the handle: a call that panicked did so polling a
\* rotation future that had died or had already returned.
C16_HandleOwnership ==
    made = "ok" =>
        /\ file.some <=> state.tag = "FileReady"
        /\ ~file.some <=> state.tag = "Rotating"
        /\ ret.kind = "Panic" =>
              (state.tag = "Rotating" /\ fut.pc \in {"complete", "panic"})

\* C16 witness: the handle was taken by a rotation and the handle the rotation
\* returned has been adopted and written to.
C16_Witness ==
    /\ Ready /\ rotations = 1 /\ file = Some(2)
    /\ ret = Ret("write", "Ok", 0) /\ called = "write"
    /\ Len(accepted) > epochAt - Len(pre)

\* C17, one step taken while the writer is Rotating: a poll_write that finds
\* the rotation unresolved returns Pending and changes no file, no counter and
\* no handle; and bytes are accepted only by a poll_write that finds the
\* rotation succeeded, which adopts the new handle, starts from the counters
\* (0, 0) and delivers the bytes to the fresh file at the logical path and to
\* no other file.
C17_StepOk ==
    (made = "ok" /\ state.tag = "Rotating") =>
        /\ (ret'.op = "write" /\ fut' = fut /\ PollFut(fut) = "Pending") =>
              /\ ret'.kind = "Pending"
              /\ called' = "none"
              /\ fs' = fs
              /\ accepted' = accepted
              /\ state' = state
              /\ file' = file
        /\ (accepted' # accepted \/ called' = "write") =>
              /\ fut.pc = "ok"
              /\ ret'.op = "write"
              /\ state'.tag = "FileReady"
              /\ file'.some
              /\ accepted' # accepted =>
                    /\ ret'.kind = "Ok"
                    /\ state' = FileReady(countlines(Delivered), Len(Delivered))
                    /\ fs[path] = Raw(<<>>)
                    /\ fs' = Put(fs, path, Raw(Delivered))

\* C17: every step satisfies C17_StepOk: while Rotating a write waits, and its
\* bytes are delivered only after the rotation succeeded, to the fresh file.
C17_WriteWaitsForRotation == [][C17_StepOk]_vars

\* C17 witness: a write that found the rotation succeeded has delivered its
\* bytes: they are the whole content of the fresh file and the counters count
\* them alone.
C17_Witness ==
    /\ Ready /\ rotations = 1 /\ Len(rotlog) = 1
    /\ Len(pre) + Len(accepted) > epochAt
    /\ fs[path] = Raw(SubSeq(pre \o accepted, epochAt + 1, Len(pre) + Len(accepted)))
    /\ state = FileReady(countlines(fs[path].data), Len(fs[path].data))
    /\ ret = Ret("write", "Ok", 0)

\* C18: a poll_shutdown that reported success has called poll_shutdown on the
\* handle the writer then holds: the current handle when it found the writer
\* Ready, the newly rotated handle when it found the writer Rotating.
C18_ShutdownSignalsHandle ==
    (made = "ok" /\ ret.op = "shutdown" /\ ret.kind = "Ok") => called = "shutdown"

\* C18 for the Ready state alone: a poll_shutdown that found the writer Ready
\* called poll_shutdown on the current handle.
C18_ShutdownInReadyStep ==
    (Ready /\ ret'.op = "shutdown") => (called' = "shutdown" /\ file' = file)

\* C18 for the Ready state alone, as a property of every step.
C18_ShutdownInReady == [][C18_ShutdownInReadyStep]_vars

\* C19: whenever the writer is Ready, its counters are the number of newline
\* bytes and the number of bytes of the file at the logical path.
C19_CounterAccuracy ==
    Ready =>
        /\ state.lines = countlines(fs[path].data)
        /\ state.bytes = Len(fs[path].data)

\* C19 for writers whose recovery scan read the pre-existing content.
C19_AccurateAfterGoodScan ==
    (Ready /\ (scanned \/ pre = <<>>)) =>
        /\ state.lines = countlines(fs[path].data)
        /\ state.bytes = Len(fs[path].data)

\* C20, one public call made while the writer is Rotating and the call before
\* it returned Pending, whether that call is polled again or was dropped for
\* another: a rotation still in flight is polled as it is, nothing changes and
\* the call returns Pending; a rotation that succeeded has its handle adopted
\* (by a write of threshold 0 only to be rotated again at once, for the next
\* epoch); no other rotation is started; and a flush or shutdown changes no
\* file, so no byte of a dropped write is in any file.
C20_StepOk ==
    (/\ made = "ok" /\ state.tag = "Rotating" /\ ret.kind = "Pending"
     /\ ret' # ret /\ ret'.op \in {"write", "flush", "shutdown"}) =>
        /\ PollFut(fut) = "Pending" =>
              /\ ret'.kind = "Pending"
              /\ fut' = fut /\ state' = state /\ file' = file
              /\ fs' = fs /\ accepted' = accepted /\ rotations' = rotations
        /\ PollFut(fut) = "Ok" =>
              \/ /\ state'.tag = "FileReady"
                 /\ file' = Some(Len(rotlog) + 1)
                 /\ rotations' = rotations
                 /\ ret'.op # "write" =>
                       /\ ret'.kind = "Ok"
                       /\ state' = FileReady(0, 0)
                       /\ fs' = fs /\ accepted' = accepted
              \/ /\ ret'.op = "write" /\ rotation.n = 0
                 /\ state'.tag = "Rotating" /\ fut' = NewFut
                 /\ rotations' = rotations + 1
                 /\ fs' = fs /\ accepted' = accepted
        /\ PollFut(fut) = "Err" =>
              /\ ret'.kind = "Err"
              /\ fs' = fs /\ accepted' = accepted /\ rotations' = rotations
        /\ rotlog' = rotlog

\* C20: every step satisfies C20_StepOk: a rotation in flight survives the
\* call that started it; a later write, flush or shutdown resumes the same
\* rotation task, starts no second rotation for that epoch, receives the
\* handle, and no byte of the dropped write reaches a file.
C20_RotationSurvivesDroppedCall == [][C20_StepOk]_vars

\* C20 witness: the write that started the only rotation returned Pending and
\* was dropped; a flush resumed the rotation and adopted its handle.
C20_Witness ==
    /\ Ready /\ rotation.n >= 1 /\ rotations = 1 /\ Len(rotlog) = 1
    /\ ret = Ret("flush", "Ok", 0) /\ called = "none"
    /\ file = Some(2) /\ state = FileReady(0, 0)
    /\ fs[path] = Raw(<<>>)
    /\ Decompress(fs[rotlog[1]]) = pre \o accepted

====
